---------------------------- MODULE Spec2Model ----------------------------
(***************************************************************************)
(* Opalinus Clay material objects: the anisotropic permeability tensor     *)
(* (OpalinusPermeabilityTensor.C) and the elasticity tensor                *)
(* (OpalinusElasticityTensor.h).                                           *)
(*                                                                         *)
(* Real numbers are exact rationals <<n, d>> in lowest terms with d > 0.   *)
(* The prefactor values used below are 0, sign changes and powers of two,  *)
(* for which IEEE double multiplication is exact as well.                  *)
(***************************************************************************)
EXTENDS Integers, Sequences, FiniteSets

\* Number of quadrature points of the element under evaluation.
NumQp == 2

\* Quadrature point indices (_qp runs over 0 .. n_qp - 1).
QP == 0 .. (NumQp - 1)

----------------------------------------------------------------------------
(* Real arithmetic *)

Abs(x) == IF x < 0 THEN -x ELSE x

RECURSIVE GCD(_, _)
GCD(a, b) == IF b = 0 THEN a ELSE GCD(b, a % b)

\* The real n/d in lowest terms.
Rat(n, d) ==
    LET g == GCD(Abs(n), Abs(d))
        s == IF d < 0 THEN -1 ELSE 1
    IN  << (s * n) \div g, (s * d) \div g >>

RealOf(n) == << n, 1 >>
Zero == RealOf(0)
One == RealOf(1)
Two == RealOf(2)
MinusOne == RealOf(-1)
Half == << 1, 2 >>

\* Real * Real
RMul(a, b) == Rat(a[1] * b[1], a[2] * b[2])

\* Real + Real
RAdd(a, b) == Rat(a[1] * b[2] + b[1] * a[2], a[2] * b[2])

----------------------------------------------------------------------------
(* Rank-two tensors: 3 rows of 3 reals *)

Idx == 1 .. 3

\* RankTwoTensor * Real, componentwise.
ScaleTensor(T, f) == [i \in Idx |-> [j \in Idx |-> RMul(T[i][j], f)]]

\* A default-constructed RealTensorValue.
ZeroTensor == [i \in Idx |-> [j \in Idx |-> Zero]]

Sum3(a, b, c) == RAdd(RAdd(a, b), c)

\* CartesianLocalCoordinateSystem::rotateLocalToGlobal: T <- R T R^T.
rotateLocalToGlobal(R, T) ==
    [i \in Idx |-> [j \in Idx |->
        LET term(k, l) == RMul(RMul(R[i][k], R[j][l]), T[k][l])
            inner(k) == Sum3(term(k, 1), term(k, 2), term(k, 3))
        IN  Sum3(inner(1), inner(2), inner(3))]]

\* Local coordinate systems (rotations, det = +1) the material can be given.
IdentityFrame ==
    << << One, Zero, Zero >>, << Zero, One, Zero >>, << Zero, Zero, One >> >>

\* e1 -> e2 -> e3 -> e1.
CyclicFrame ==
    << << Zero, Zero, One >>, << One, Zero, Zero >>, << Zero, One, Zero >> >>

\* Rotation about e3 by the angle with cosine 3/5 and sine 4/5.
TiltFrame ==
    << << <<3, 5>>, <<-4, 5>>, Zero >>,
       << <<4, 5>>, <<3, 5>>, Zero >>,
       << Zero, Zero, One >> >>

Frames == { IdentityFrame, CyclicFrame, TiltFrame }

\* Parameter triples (permeability1, permeability2, permeability3).
PermeabilityParams == { << 1, 2, 3 >>, << 2, 2, 1 >>, << -1, 0, 2 >> }

----------------------------------------------------------------------------
VARIABLES
    hasFunctor,                 \* _prefactor_functor != nullptr
    hasMatProp,                 \* _prefactor_matprop != nullptr
    permeability,               \* << _permeability1, _permeability2, _permeability3 >>
    localCoordinateSystem,      \* rotation of _localCoordinateSystem
    input_permeability,         \* _input_permeability
    permeability_qp,            \* _permeability_qp[qp]
    dpermeability_qp_dvar,      \* _dpermeability_qp_dvar[qp]
    dpermeability_qp_dgradvar,  \* _dpermeability_qp_dgradvar[qp]
    qp_cur,                     \* _qp of the latest call, -1 before the first
    functor_at,                 \* functor value at qp in the latest call there
    matprop_at,                 \* property value at qp in the latest call there
    reads,                      \* collaborators read by the latest call, in order
    hasPrefactorFunction,       \* _prefactor_function != nullptr
    Cijkl,                      \* _Cijkl, in Voigt form
    elasticity_tensor,          \* _elasticity_tensor[qp]
    function_at,                \* function value at qp in the latest call there
    qp_elast                    \* _qp of the elasticity object's latest call

permeabilityVars ==
    << hasFunctor, hasMatProp, permeability, localCoordinateSystem,
       input_permeability, permeability_qp, dpermeability_qp_dvar,
       dpermeability_qp_dgradvar, qp_cur, functor_at, matprop_at, reads >>

elasticityVars ==
    << hasPrefactorFunction, Cijkl, elasticity_tensor, function_at, qp_elast >>

vars == << permeabilityVars, elasticityVars >>

\* Values a functor / a material property can return at a point and time.
FunctorValues == { Zero, Two, MinusOne }
MatPropValues == { Zero, Half }

NotCalled == << 0, 0 >>
NoSource == << 1, 0 >>

\* Variant: permeability1 is used for the e3 entry as well.
LocalPermeability_repeatFirst(k) ==
    << << RealOf(k[1]), Zero, Zero >>,
       << Zero, RealOf(k[2]), Zero >>,
       << Zero, Zero, RealOf(k[1]) >> >>

\* RankTwoTensor(_permeability1, 0, 0, 0, _permeability2, 0, 0, 0, _permeability3)
LocalPermeability(k) ==
    << << RealOf(k[1]), Zero, Zero >>,
       << Zero, RealOf(k[2]), Zero >>,
       << Zero, Zero, RealOf(k[3]) >> >>

\* Constructor body: the local tensor rotated to global coordinates.
ConstructInputPermeability(R, k) == rotateLocalToGlobal(R, LocalPermeability(k))

\* State of OpalinusPermeabilityTensor after its constructor.
ConstructPermeability ==
    /\ hasFunctor \in BOOLEAN
    /\ hasMatProp \in BOOLEAN
    /\ permeability \in PermeabilityParams
    /\ localCoordinateSystem \in Frames
    /\ input_permeability =
           ConstructInputPermeability(localCoordinateSystem, permeability)
    /\ permeability_qp = [q \in QP |-> ZeroTensor]
    /\ dpermeability_qp_dvar = [q \in QP |-> << >>]
    /\ dpermeability_qp_dgradvar = [q \in QP |-> << >>]
    /\ qp_cur = -1
    /\ functor_at = [q \in QP |-> NotCalled]
    /\ matprop_at = [q \in QP |-> NotCalled]
    /\ reads = << >>

\* Variants of the body of computeQpProperties with one slip each.

\* The material-property factor is never multiplied in.
QpProperties_dropMatProp(K, withFunctor, withMatProp, f, m) ==
    IF withFunctor \/ withMatProp
    THEN LET f1 == IF withFunctor THEN f ELSE One
             r1 == IF withFunctor THEN << "functor" >> ELSE << >>
             rd == withMatProp /\ f1 # Zero
             r2 == IF rd THEN Append(r1, "matprop") ELSE r1
         IN  [ perm |-> ScaleTensor(K, f1), reads |-> r2 ]
    ELSE [ perm |-> K, reads |-> << >> ]

\* The material property is read whatever the functor returned.
QpProperties_noShortCircuit(K, withFunctor, withMatProp, f, m) ==
    IF withFunctor \/ withMatProp
    THEN LET f1 == IF withFunctor THEN f ELSE One
             r1 == IF withFunctor THEN << "functor" >> ELSE << >>
             rd == withMatProp
             f2 == IF rd THEN RMul(f1, m) ELSE f1
             r2 == IF rd THEN Append(r1, "matprop") ELSE r1
         IN  [ perm |-> ScaleTensor(K, f2), reads |-> r2 ]
    ELSE [ perm |-> K, reads |-> << >> ]

\* The branch without prefactors publishes nothing (the slot keeps its
\* default value).
QpProperties_noElse(K, withFunctor, withMatProp, f, m) ==
    IF withFunctor \/ withMatProp
    THEN LET f1 == IF withFunctor THEN f ELSE One
             r1 == IF withFunctor THEN << "functor" >> ELSE << >>
             rd == withMatProp /\ f1 # Zero
             f2 == IF rd THEN RMul(f1, m) ELSE f1
             r2 == IF rd THEN Append(r1, "matprop") ELSE r1
         IN  [ perm |-> ScaleTensor(K, f2), reads |-> r2 ]
    ELSE [ perm |-> ZeroTensor, reads |-> << >> ]

\* Without a functor f starts at 0.0 instead of 1.0.
QpProperties_zeroDefault(K, withFunctor, withMatProp, f, m) ==
    IF withFunctor \/ withMatProp
    THEN LET f1 == IF withFunctor THEN f ELSE Zero
             r1 == IF withFunctor THEN << "functor" >> ELSE << >>
             rd == withMatProp /\ f1 # Zero
             f2 == IF rd THEN RMul(f1, m) ELSE f1
             r2 == IF rd THEN Append(r1, "matprop") ELSE r1
         IN  [ perm |-> ScaleTensor(K, f2), reads |-> r2 ]
    ELSE [ perm |-> K, reads |-> << >> ]

\* A negative functor value is clamped to zero.
QpProperties_clamp(K, withFunctor, withMatProp, f, m) ==
    IF withFunctor \/ withMatProp
    THEN LET f1 == IF withFunctor THEN (IF f[1] < 0 THEN Zero ELSE f) ELSE One
             r1 == IF withFunctor THEN << "functor" >> ELSE << >>
             rd == withMatProp /\ f1 # Zero
             f2 == IF rd THEN RMul(f1, m) ELSE f1
             r2 == IF rd THEN Append(r1, "matprop") ELSE r1
         IN  [ perm |-> ScaleTensor(K, f2), reads |-> r2 ]
    ELSE [ perm |-> K, reads |-> << >> ]

\* The body of computeQpProperties: the tensor it publishes and the
\* collaborators it reads, given the values f and m the functor and the
\* material property hold at the point.
QpProperties(K, withFunctor, withMatProp, f, m) ==
    IF withFunctor \/ withMatProp
    THEN LET f1 == IF withFunctor THEN f ELSE One
             r1 == IF withFunctor THEN << "functor" >> ELSE << >>
             rd == withMatProp /\ f1 # Zero
             f2 == IF rd THEN RMul(f1, m) ELSE f1
             r2 == IF rd THEN Append(r1, "matprop") ELSE r1
         IN  [ perm |-> ScaleTensor(K, f2), reads |-> r2 ]
    ELSE [ perm |-> K, reads |-> << >> ]

\* Variant: the call also sizes the derivative fields for one variable.
computeQpProperties_sizeDerivatives(qp) ==
    \E f \in (IF hasFunctor THEN FunctorValues ELSE { NoSource }),
       m \in (IF hasMatProp THEN MatPropValues ELSE { NoSource }) :
        LET r == QpProperties(input_permeability, hasFunctor, hasMatProp, f, m)
        IN  /\ permeability_qp' = [permeability_qp EXCEPT ![qp] = r.perm]
            /\ reads' = r.reads
            /\ qp_cur' = qp
            /\ functor_at' = [functor_at EXCEPT ![qp] = f]
            /\ matprop_at' = [matprop_at EXCEPT ![qp] = m]
            /\ dpermeability_qp_dvar' =
                   [dpermeability_qp_dvar EXCEPT ![qp] = << ZeroTensor >>]
            /\ dpermeability_qp_dgradvar' =
                   [dpermeability_qp_dgradvar EXCEPT ![qp] = << << ZeroTensor >> >>]
            /\ UNCHANGED << hasFunctor, hasMatProp, permeability,
                            localCoordinateSystem, input_permeability >>
            /\ UNCHANGED elasticityVars

\* Variant: the stored tensor is scaled in place and then published.
computeQpProperties_inPlace(qp) ==
    \E f \in (IF hasFunctor THEN FunctorValues ELSE { NoSource }),
       m \in (IF hasMatProp THEN MatPropValues ELSE { NoSource }) :
        LET r == QpProperties(input_permeability, hasFunctor, hasMatProp, f, m)
        IN  /\ input_permeability' = r.perm
            /\ permeability_qp' = [permeability_qp EXCEPT ![qp] = r.perm]
            /\ reads' = r.reads
            /\ qp_cur' = qp
            /\ functor_at' = [functor_at EXCEPT ![qp] = f]
            /\ matprop_at' = [matprop_at EXCEPT ![qp] = m]
            /\ UNCHANGED << hasFunctor, hasMatProp, permeability,
                            localCoordinateSystem,
                            dpermeability_qp_dvar, dpermeability_qp_dgradvar >>
            /\ UNCHANGED elasticityVars

\* Variant: the result is written to every slot instead of slot _qp.
computeQpProperties_allSlots(qp) ==
    \E f \in (IF hasFunctor THEN FunctorValues ELSE { NoSource }),
       m \in (IF hasMatProp THEN MatPropValues ELSE { NoSource }) :
        LET r == QpProperties(input_permeability, hasFunctor, hasMatProp, f, m)
        IN  /\ permeability_qp' = [q \in QP |-> r.perm]
            /\ reads' = r.reads
            /\ qp_cur' = qp
            /\ functor_at' = [functor_at EXCEPT ![qp] = f]
            /\ matprop_at' = [matprop_at EXCEPT ![qp] = m]
            /\ UNCHANGED << hasFunctor, hasMatProp, permeability,
                            localCoordinateSystem, input_permeability,
                            dpermeability_qp_dvar, dpermeability_qp_dgradvar >>
            /\ UNCHANGED elasticityVars

computeQpProperties(qp) ==
    \E f \in (IF hasFunctor THEN FunctorValues ELSE { NoSource }),
       m \in (IF hasMatProp THEN MatPropValues ELSE { NoSource }) :
        LET r == QpProperties(input_permeability, hasFunctor, hasMatProp, f, m)
        IN  /\ permeability_qp' = [permeability_qp EXCEPT ![qp] = r.perm]
            /\ reads' = r.reads
            /\ qp_cur' = qp
            /\ functor_at' = [functor_at EXCEPT ![qp] = f]
            /\ matprop_at' = [matprop_at EXCEPT ![qp] = m]
            /\ UNCHANGED << hasFunctor, hasMatProp, permeability,
                            localCoordinateSystem, input_permeability,
                            dpermeability_qp_dvar, dpermeability_qp_dgradvar >>
            /\ UNCHANGED elasticityVars

----------------------------------------------------------------------------
(* OpalinusElasticityTensor *)

Voigt == 1 .. 6

\* A transversely isotropic stiffness (axis e3) in Voigt form, from its five
\* independent components; c66 = (c11 - c12) / 2.
TransverseIsotropicStiffness(c11, c12, c13, c33, c44) ==
    LET c66 == (c11 - c12) \div 2
        M == << << c11, c12, c13, 0, 0, 0 >>,
                << c12, c11, c13, 0, 0, 0 >>,
                << c13, c13, c33, 0, 0, 0 >>,
                << 0, 0, 0, c44, 0, 0 >>,
                << 0, 0, 0, 0, c44, 0 >>,
                << 0, 0, 0, 0, 0, c66 >> >>
    IN  [i \in Voigt |-> [j \in Voigt |-> RealOf(M[i][j])]]

\* Stored global stiffness tensors (units of 1e9): the isotropic limit
\* C1111 = 12, C1122 = 4, C1212 = 4, and two anisotropic ones.
Stiffnesses ==
    { TransverseIsotropicStiffness(12, 4, 4, 12, 4),
      TransverseIsotropicStiffness(10, 4, 3, 6, 2),
      TransverseIsotropicStiffness(8, 2, 1, 5, 3) }

ZeroStiffness == [i \in Voigt |-> [j \in Voigt |-> Zero]]

\* RankFourTensor * Real, componentwise.
ScaleStiffness(C, f) == [i \in Voigt |-> [j \in Voigt |-> RMul(C[i][j], f)]]

\* Values the prefactor function can return at a point and time.
FunctionValues == { Zero, One, Two, MinusOne }

\* State of OpalinusElasticityTensor after its constructor.
ConstructElasticity ==
    /\ hasPrefactorFunction \in BOOLEAN
    /\ Cijkl \in Stiffnesses
    /\ elasticity_tensor = [q \in QP |-> ZeroStiffness]
    /\ function_at = [q \in QP |-> NotCalled]
    /\ qp_elast = -1

\* Variant: the prefactor function is ignored.
ElasticityQpProperties_unscaled(C, withFunction, f) == C

\* The tensor OpalinusElasticityTensor::computeQpProperties publishes, given
\* the value f of the prefactor function at the point and time.
ElasticityQpProperties(C, withFunction, f) ==
    IF withFunction THEN ScaleStiffness(C, f) ELSE C

computeQpPropertiesElasticity(qp) ==
    \E f \in (IF hasPrefactorFunction THEN FunctionValues ELSE { NoSource }) :
        /\ elasticity_tensor' =
               [elasticity_tensor EXCEPT
                   ![qp] = ElasticityQpProperties(Cijkl, hasPrefactorFunction, f)]
        /\ function_at' = [function_at EXCEPT ![qp] = f]
        /\ qp_elast' = qp
        /\ UNCHANGED << hasPrefactorFunction, Cijkl >>
        /\ UNCHANGED permeabilityVars

----------------------------------------------------------------------------
(* Specifications *)

\* The permeability material; the elasticity material is constructed and idle.
Init ==
    /\ ConstructPermeability
    /\ ConstructElasticity
    /\ hasPrefactorFunction = FALSE
    /\ Cijkl = TransverseIsotropicStiffness(12, 4, 4, 12, 4)

Next == \E qp \in QP : computeQpProperties(qp)

Spec == Init /\ [][Next]_vars

\* The elasticity material; the permeability material is constructed and idle.
InitElasticity ==
    /\ ConstructElasticity
    /\ ConstructPermeability
    /\ hasFunctor = FALSE
    /\ hasMatProp = FALSE
    /\ permeability = << 1, 2, 3 >>
    /\ localCoordinateSystem = IdentityFrame

NextElasticity == \E qp \in QP : computeQpPropertiesElasticity(qp)

SpecElasticity == InitElasticity /\ [][NextElasticity]_vars

----------------------------------------------------------------------------
(* Properties *)

Called(q) == functor_at[q] # NotCalled

AllCalled == \A q \in QP : Called(q)

BothPrefactors == hasFunctor /\ hasMatProp

\* C1: with both prefactors configured, the tensor published at every
\* evaluated quadrature point is K * f * m componentwise, f the functor
\* value and m the material-property value at that point.
C1_ProductRule ==
    BothPrefactors =>
        \A q \in QP : Called(q) =>
            \A i \in Idx, j \in Idx :
                permeability_qp[q][i][j] =
                    RMul(RMul(input_permeability[i][j], functor_at[q]),
                         matprop_at[q])

\* f = 2 and m = 1/2 have published a non-zero K itself.
C1_Witness ==
    /\ BothPrefactors
    /\ \E q \in QP :
           /\ functor_at[q] = Two
           /\ matprop_at[q] = Half
           /\ permeability_qp[q] = input_permeability
    /\ input_permeability[1][2] # Zero

\* C2: with both prefactors configured, a call reads the functor first, and
\* when the functor returned zero it does not read the material property.
C2_ShortCircuit ==
    (BothPrefactors /\ qp_cur # -1) =>
        /\ Len(reads) >= 1
        /\ reads[1] = "functor"
        /\ \A n \in 1 .. Len(reads) :
               reads[n] = "matprop" => \E k \in 1 .. (n - 1) : reads[k] = "functor"
        /\ functor_at[qp_cur] = Zero => reads = << "functor" >>

\* A call where the functor returned zero and the property holds a value.
C2_Witness ==
    /\ BothPrefactors
    /\ qp_cur # -1
    /\ functor_at[qp_cur] = Zero
    /\ matprop_at[qp_cur] = Half
    /\ reads = << "functor" >>
    /\ permeability_qp[qp_cur] = ZeroTensor

\* C3: with no prefactor configured, every evaluated quadrature point holds
\* the stored tensor K itself, and the call read no collaborator.
C3_NoPrefactor ==
    (~hasFunctor /\ ~hasMatProp) =>
        /\ \A q \in QP : Called(q) => permeability_qp[q] = input_permeability
        /\ \A q1 \in QP, q2 \in QP :
               (Called(q1) /\ Called(q2)) => permeability_qp[q1] = permeability_qp[q2]
        /\ reads = << >>

\* Every quadrature point was evaluated without prefactors, K not zero.
C3_Witness ==
    /\ ~hasFunctor
    /\ ~hasMatProp
    /\ AllCalled
    /\ input_permeability # ZeroTensor
    /\ \A q \in QP : permeability_qp[q] = input_permeability

\* C4: with only the material-property prefactor, the published tensor is
\* K * m componentwise and every call reads the property (and nothing else).
C4_OnlyMatProp ==
    (~hasFunctor /\ hasMatProp) =>
        /\ \A q \in QP : Called(q) =>
               \A i \in Idx, j \in Idx :
                   permeability_qp[q][i][j] =
                       RMul(input_permeability[i][j], matprop_at[q])
        /\ qp_cur # -1 => reads = << "matprop" >>

\* A call with m = 1/2, and one with m = 0, both having read the property.
C4_Witness ==
    /\ ~hasFunctor
    /\ hasMatProp
    /\ qp_cur # -1
    /\ matprop_at[qp_cur] = Zero
    /\ reads = << "matprop" >>
    /\ \E q \in QP :
           /\ matprop_at[q] = Half
           /\ permeability_qp[q] # ZeroTensor
           /\ permeability_qp[q] # input_permeability

\* C5: with only the functor, the published tensor is K * f componentwise;
\* f = 0 publishes the zero tensor and a negative f is not clamped.
C5_OnlyFunctor ==
    (hasFunctor /\ ~hasMatProp) =>
        /\ \A q \in QP : Called(q) =>
               /\ \A i \in Idx, j \in Idx :
                      permeability_qp[q][i][j] =
                          RMul(input_permeability[i][j], functor_at[q])
               /\ functor_at[q] = Zero => permeability_qp[q] = ZeroTensor
               /\ functor_at[q] = MinusOne =>
                      \A i \in Idx, j \in Idx :
                          RAdd(permeability_qp[q][i][j],
                               input_permeability[i][j]) = Zero
        /\ qp_cur # -1 => reads = << "functor" >>

\* One point evaluated with f = -1 and another with f = 0.
C5_Witness ==
    /\ hasFunctor
    /\ ~hasMatProp
    /\ input_permeability # ZeroTensor
    /\ \E q1 \in QP, q2 \in QP :
           /\ functor_at[q1] = MinusOne
           /\ permeability_qp[q1] # ZeroTensor
           /\ functor_at[q2] = Zero
           /\ permeability_qp[q2] = ZeroTensor

\* C6: both derivative fields are empty in their outer dimension at every
\* quadrature point, after construction and after any calls.
C6_EmptyDerivatives ==
    \A q \in QP :
        /\ Len(dpermeability_qp_dvar[q]) = 0
        /\ Len(dpermeability_qp_dgradvar[q]) = 0

\* Every quadrature point has been evaluated, with a prefactor in use.
C6_Witness ==
    /\ AllCalled
    /\ hasFunctor
    /\ \A q \in QP : dpermeability_qp_dvar[q] = << >>

\* The component (i, j) of R diag(k1, k2, k3) R^T.
RotatedDiagonal(R, k, i, j) ==
    LET term(a) == RMul(RMul(R[i][a], RealOf(k[a])), R[j][a])
    IN  Sum3(term(1), term(2), term(3))

\* C7: the stored K equals R diag(permeability1..3) R^T, is symmetric, and
\* is diag(permeability1..3) under the identity frame.
C7_RotatedTensor ==
    /\ \A i \in Idx, j \in Idx :
           /\ input_permeability[i][j] =
                  RotatedDiagonal(localCoordinateSystem, permeability, i, j)
           /\ input_permeability[i][j] = input_permeability[j][i]
    /\ localCoordinateSystem = IdentityFrame =>
           \A i \in Idx, j \in Idx :
               input_permeability[i][j] =
                   IF i = j THEN RealOf(permeability[i]) ELSE Zero

\* A tilted frame with distinct in-plane permeabilities: K is not diagonal.
C7_Witness ==
    /\ localCoordinateSystem = TiltFrame
    /\ permeability = << -1, 0, 2 >>
    /\ input_permeability[1][2] # Zero
    /\ input_permeability[1][2] = input_permeability[2][1]

\* C9: no call changes the stored tensor K or permeability1..3.
C9_StoredTensorFrozen ==
    [][ /\ input_permeability' = input_permeability
        /\ permeability' = permeability ]_vars

\* Every point was evaluated, one with factor 2 and one with factor 0, and
\* K is still the constructor's non-zero tensor.
C9_Witness ==
    /\ hasFunctor
    /\ AllCalled
    /\ \E q1 \in QP, q2 \in QP : functor_at[q1] = Two /\ functor_at[q2] = Zero
    /\ input_permeability # ZeroTensor
    /\ input_permeability =
           ConstructInputPermeability(localCoordinateSystem, permeability)

\* The scalar the prefactor values at a point amount to.
PointFactor(f, m) ==
    RMul(IF hasFunctor THEN f ELSE One, IF hasMatProp THEN m ELSE One)

PointLocal ==
    \A q \in QP : Called(q) =>
        \A i \in Idx, j \in Idx :
            permeability_qp[q][i][j] =
                RMul(input_permeability[i][j],
                     PointFactor(functor_at[q], matprop_at[q]))

\* C10: a call writes only the slot of its own quadrature point, and each
\* evaluated slot holds a value fixed by K and the prefactor values at that
\* point, whatever the order and repetition of the calls.
C10_PointLocal ==
    /\ []PointLocal
    /\ [][ \A q \in QP :
               q # qp_cur' => permeability_qp'[q] = permeability_qp[q] ]_vars

\* All points evaluated with different prefactor values, the latest call
\* being at the first point (so not in index order).
C10_Witness ==
    /\ AllCalled
    /\ BothPrefactors
    /\ qp_cur = 0
    /\ input_permeability # ZeroTensor
    /\ \E q \in QP : q # 0 /\ permeability_qp[q] # permeability_qp[0]

CalledElasticity(q) == function_at[q] # NotCalled

\* C8: the published elasticity tensor is the stored C without a prefactor
\* function and C times the function value with one (1 gives C, 0 the zero
\* tensor, 2 twice C).
C8_ElasticityPrefactor ==
    \A q \in QP : CalledElasticity(q) =>
        /\ ~hasPrefactorFunction => elasticity_tensor[q] = Cijkl
        /\ hasPrefactorFunction =>
               /\ \A i \in Voigt, j \in Voigt :
                      elasticity_tensor[q][i][j] = RMul(Cijkl[i][j], function_at[q])
               /\ function_at[q] = One => elasticity_tensor[q] = Cijkl
               /\ function_at[q] = Zero => elasticity_tensor[q] = ZeroStiffness
               /\ function_at[q] = Two =>
                      \A i \in Voigt, j \in Voigt :
                          elasticity_tensor[q][i][j] = RAdd(Cijkl[i][j], Cijkl[i][j])

\* One point evaluated with prefactor 2 and another with prefactor 0.
C8_Witness ==
    /\ hasPrefactorFunction
    /\ \E q1 \in QP, q2 \in QP :
           /\ function_at[q1] = Two
           /\ elasticity_tensor[q1] # Cijkl
           /\ function_at[q2] = Zero
           /\ elasticity_tensor[q2] = ZeroStiffness

=============================================================================
